---- MODULE Spec2Model ----
(***************************************************************************)
(* A model of the hierarchical timing-wheel timer of GuoCeng/time-wheel.   *)
(*                                                                         *)
(* src/timer/timer.go (SystemTimer) is translated statement by statement.  *)
(* TimingWheel, TaskList, TaskEntry, Task and queue.DelayQueue are used by *)
(* timer.go but their files are not part of the sources at hand; they are  *)
(* modelled from sections 3 and 4 of the specification.                    *)
(*                                                                         *)
(* Time is counted in units of half a base tick.  `now' is the true time;  *)
(* the program never sees it: it reads time.Now().Nanosecond(), the        *)
(* nanosecond offset within the current second, which wraps.  The wrap     *)
(* period is scaled down from 10^9 to NanosPerSecond units.                *)
(***************************************************************************)
EXTENDS Integers, Sequences, FiniteSets, Bags, TLC

\* Construction parameters of NewSystemTimer(tickMs, wheelSize).
tickMs == 2
wheelSize == 2

\* Bounds of the model.
NanosPerSecond == 8
NumTasks == 2
StartNow == 3
MaxElapsed == 6

\* The delays a caller may give a task.
Delays == {0, 2, 4}

Tasks == 1..NumTasks
Slots == 0..(wheelSize - 1)
Unarmed == -1

VARIABLES
    now,          \* true time (never read by the program)
    wheels,       \* wheels[1] is SystemTimer.timingWheel, wheels[i+1] the overflow wheel of wheels[i]
    delayQueue,   \* SystemTimer.delayQueue: a bag of [lvl, slot, key]
    entries,      \* per task: the submitting call's position, the TaskEntry, the task's goroutines
    drv,          \* position of the driving thread inside AdvanceClock
    cur,          \* the bucket the driving thread holds (v in AdvanceClock)
    ctxDone,      \* whether the ctx given to the AdvanceClock call in progress is done
    ret,          \* what the last AdvanceClock call returned
    taskCounter,  \* SystemTimer.taskCounter
    shutAt,       \* "none" until Shutdown is called, then whether the driving thread was "blocked" in Pop
    shutPending   \* the tasks queued in a bucket when Shutdown was called

vars == <<now, wheels, delayQueue, entries, drv, cur, ctxDone, ret, taskCounter, shutAt, shutPending>>

NoBucket == [lvl |-> 0, slot |-> 0]

\* time.Now().Nanosecond(): the nanosecond offset within the second, in [0, 999999999].
Nanosecond(n) == n % NanosPerSecond

----------------------------------------------------------------------------
(* Bucket (TaskList) *)

EmptyTaskList == [expiration |-> Unarmed, entries |-> {}]

\* TaskList.add: the entry joins the bucket.
TaskListAdd(b, t) == [b EXCEPT !.entries = @ \cup {t}]

\* TaskList.setExpiration: replaces the armed expiration.
SetExpiration(b, e) == [b EXCEPT !.expiration = e]

\* A variant of SetExpirationChanged that always reports a change.
SetExpirationAlwaysChanged(b, e) == TRUE

\* What setExpiration returns: whether the expiration differs from the previous one.
SetExpirationChanged(b, e) == b.expiration # e

\* TaskList.GetDelay: the bucket's armed expiration, the key of the wake queue.
GetDelay(b) == b.expiration

----------------------------------------------------------------------------
(* Timing wheel *)

NewTimingWheel(tick, startMs) ==
    [tickMs      |-> tick,
     interval    |-> tick * wheelSize,
     currentTime |-> startMs - (startMs % tick),
     buckets     |-> [s \in Slots |-> EmptyTaskList]]

\* DelayQueue.Offer
Offer(dq, lvl, slot, key) == dq (+) SetToBag({[lvl |-> lvl, slot |-> slot, key |-> key]})

\* A variant of AddOverflowWheel that constructs without looking whether an
\* overflow wheel is already there.
AddOverflowWheelUnguarded(ws, lvl) ==
    Append(SubSeq(ws, 1, lvl), NewTimingWheel(ws[lvl].interval, ws[lvl].currentTime))

\* TimingWheel.addOverflowWheel at level lvl: constructs the overflow wheel if
\* it is still absent; of several callers one constructs.
AddOverflowWheel(ws, lvl) ==
    IF Len(ws) = lvl
    THEN Append(ws, NewTimingWheel(ws[lvl].interval, ws[lvl].currentTime))
    ELSE ws

\* TimingWheel.add of entry t (expiration exp, cancelled flag c) at level lvl.
\* The result is [ok, need, ws, dq]: whether the entry was accepted, the wheels
\* and the wake queue afterwards, and need: 0, or the level at which add has
\* found that the entry belongs to an overflow wheel that is absent, which the
\* caller has yet to construct.
RECURSIVE WheelAdd(_, _, _, _, _, _)
WheelAdd(ws, dq, lvl, t, exp, c) ==
    LET w == ws[lvl] IN
    IF c THEN [ok |-> FALSE, need |-> 0, ws |-> ws, dq |-> dq]
    ELSE IF exp < w.currentTime + w.tickMs
    THEN [ok |-> FALSE, need |-> 0, ws |-> ws, dq |-> dq]
    ELSE IF exp < w.currentTime + w.interval THEN
        LET virtualId == exp \div w.tickMs
            slot      == virtualId % wheelSize
            b         == w.buckets[slot]
            armed     == SetExpirationChanged(b, virtualId * w.tickMs)
            nb        == SetExpiration(TaskListAdd(b, t), virtualId * w.tickMs)
        IN [ok |-> TRUE, need |-> 0,
            ws |-> [ws EXCEPT ![lvl].buckets[slot] = nb],
            dq |-> IF armed THEN Offer(dq, lvl, slot, virtualId * w.tickMs) ELSE dq]
    ELSE IF Len(ws) = lvl
    THEN [ok |-> TRUE, need |-> lvl, ws |-> ws, dq |-> dq]
    ELSE WheelAdd(ws, dq, lvl + 1, t, exp, c)

\* TimingWheel.advanceClock(timeMs) at level lvl, forwarded to the overflow wheels.
RECURSIVE WheelAdvanceClock(_, _, _)
WheelAdvanceClock(ws, lvl, timeMs) ==
    IF lvl > Len(ws) THEN ws
    ELSE IF timeMs >= ws[lvl].currentTime + ws[lvl].tickMs
    THEN LET ct == timeMs - (timeMs % ws[lvl].tickMs)
         IN WheelAdvanceClock([ws EXCEPT ![lvl].currentTime = ct], lvl + 1, ct)
    ELSE ws

\* TaskList.flush: the bucket is emptied and disarmed; its former entries are
\* handed to the visitor.
FlushBucket(ws, b) == [ws EXCEPT ![b.lvl].buckets[b.slot] = EmptyTaskList]

----------------------------------------------------------------------------
(* Wake queue *)

QueueItems(dq) == BagToSet(dq)

\* The items Pop may return: the earliest-keyed ones, once their key has elapsed
\* on the program's clock.
DueItems(dq, clock) ==
    {i \in QueueItems(dq) : /\ i.key <= clock
                            /\ \A j \in QueueItems(dq) : i.key <= j.key}

Take(dq, i) == dq (-) SetToBag({i})

----------------------------------------------------------------------------
(* SystemTimer *)

NewEntry == [pc |-> "idle", delay |-> 0, expiration |-> 0, cancelled |-> FALSE,
             spawned |-> 0, ran |-> 0, via |-> "none", subNow |-> 0, lvl |-> 0]

\* The number of Add calls holding the read lock.
Readers == Cardinality({t \in Tasks : entries[t].pc \in {"rlocked", "created", "construct"}})

\* Whether the driving thread holds, or waits for, the write lock.
WriterPresent == drv \in {"wantlock", "locked", "pop2"}

Init ==
    /\ now = StartNow
    /\ wheels = <<NewTimingWheel(tickMs, Nanosecond(now))>>
    /\ delayQueue = EmptyBag
    /\ entries = [t \in Tasks |-> NewEntry]
    /\ drv = "out"
    /\ cur = NoBucket
    /\ ctxDone = FALSE
    /\ ret = "none"
    /\ taskCounter = 0
    /\ shutAt = "none"
    /\ shutPending = {}

\* The goroutine started for an entry: go func() { e.task.run() }().
Dispatch(e, how) ==
    [e EXCEPT !.spawned = @ + 1, !.via = how, !.pc = "out"]

\* A variant of OnRejected that leaves out the test of the cancelled flag.
OnRejectedIgnoringCancel(e) == Dispatch(e, "submit")

\* addTimerTaskEntry when the wheel rejects the entry: already expired or cancelled.
OnRejected(e) ==
    IF ~e.cancelled THEN Dispatch(e, "submit") ELSE [e EXCEPT !.pc = "out"]

\* SystemTimer.Add, first step: t.mu.RLock().
AddRLock(t) ==
    /\ entries[t].pc = "idle"
    /\ \A u \in Tasks : u < t => entries[u].pc # "idle"
    /\ ~WriterPresent
    /\ entries' = [entries EXCEPT ![t].pc = "rlocked"]
    /\ UNCHANGED <<now, wheels, delayQueue, drv, cur, ctxDone, ret, taskCounter, shutAt, shutPending>>

\* SystemTimer.Add, second step: NewTaskEntry(task, task.delayMs + Nanosecond()).
AddNewTaskEntry(t) ==
    /\ entries[t].pc = "rlocked"
    /\ \E delayMs \in Delays :
          entries' = [entries EXCEPT ![t].pc = "created",
                                     ![t].delay = delayMs,
                                     ![t].expiration = delayMs + Nanosecond(now),
                                     ![t].subNow = now]
    /\ UNCHANGED <<now, wheels, delayQueue, drv, cur, ctxDone, ret, taskCounter, shutAt, shutPending>>

\* What addTimerTaskEntry does with the entry on the result r of wheel.add;
\* while wheel.add has an overflow wheel to construct the call is not over.
AfterAdd(e, r) ==
    IF r.need > 0 THEN [e EXCEPT !.pc = "construct", !.lvl = r.need]
    ELSE IF r.ok THEN [e EXCEPT !.pc = "queued", !.lvl = 0]
    ELSE [OnRejected(e) EXCEPT !.lvl = 0]

\* SystemTimer.addTimerTaskEntry, and the deferred RUnlock.
AddTimerTaskEntry(t) ==
    /\ entries[t].pc = "created"
    /\ LET e == entries[t]
           r == WheelAdd(wheels, delayQueue, 1, t, e.expiration, e.cancelled)
       IN /\ wheels' = r.ws
          /\ delayQueue' = r.dq
          /\ entries' = [entries EXCEPT ![t] = AfterAdd(e, r)]
    /\ UNCHANGED <<now, drv, cur, ctxDone, ret, taskCounter, shutAt, shutPending>>

\* wheel.add goes on after it has found the overflow wheel of level lvl absent:
\* it constructs the wheel unless another Add has done so meanwhile, and adds
\* the entry to it.
AddToOverflow(t) ==
    /\ entries[t].pc = "construct"
    /\ LET e == entries[t]
           r == WheelAdd(AddOverflowWheel(wheels, e.lvl), delayQueue, e.lvl + 1,
                         t, e.expiration, e.cancelled)
       IN /\ wheels' = r.ws
          /\ delayQueue' = r.dq
          /\ entries' = [entries EXCEPT ![t] = AfterAdd(e, r)]
    /\ UNCHANGED <<now, drv, cur, ctxDone, ret, taskCounter, shutAt, shutPending>>

\* A variant of TaskEntryCancel that flips the flag.
TaskEntryCancelFlipping(e) == [e EXCEPT !.cancelled = ~@]

\* TaskEntry.cancel: sets the flag, leaves the entry where it is.
TaskEntryCancel(e) == [e EXCEPT !.cancelled = TRUE]

\* A holder of the entry calls cancel, any number of times, at any point of the
\* entry's life.
Cancel(t) ==
    /\ entries[t].pc \in {"created", "construct", "queued", "out"}
    /\ entries' = [entries EXCEPT ![t] = TaskEntryCancel(@)]
    /\ UNCHANGED <<now, wheels, delayQueue, drv, cur, ctxDone, ret, taskCounter, shutAt, shutPending>>

\* A task's goroutine invokes the action.
TaskRun(t) ==
    /\ entries[t].ran < entries[t].spawned
    /\ entries' = [entries EXCEPT ![t].ran = @ + 1]
    /\ UNCHANGED <<now, wheels, delayQueue, drv, cur, ctxDone, ret, taskCounter, shutAt, shutPending>>

\* The driving loop calls AdvanceClock(ctx).
AdvanceClockCall ==
    /\ drv = "out"
    /\ drv' = "pop"
    /\ ret' = "none"
    /\ UNCHANGED <<now, wheels, delayQueue, entries, cur, ctxDone, taskCounter, shutAt, shutPending>>

\* The caller's ctx is cancelled or its deadline passes.
CtxFire ==
    /\ drv # "out"
    /\ ~ctxDone
    /\ ctxDone' = TRUE
    /\ UNCHANGED <<now, wheels, delayQueue, entries, drv, cur, ret, taskCounter, shutAt, shutPending>>

\* bucket := t.delayQueue.Pop(ctx) returns a bucket.
PopBucket ==
    /\ drv = "pop"
    /\ \E i \in DueItems(delayQueue, Nanosecond(now)) :
          /\ delayQueue' = Take(delayQueue, i)
          /\ cur' = [lvl |-> i.lvl, slot |-> i.slot]
    /\ drv' = "wantlock"
    /\ UNCHANGED <<now, wheels, entries, ctxDone, ret, taskCounter, shutAt, shutPending>>

\* A variant of PopNil that answers true.
PopNilReturningTrue ==
    /\ drv = "pop"
    /\ ctxDone
    /\ drv' = "out"
    /\ ret' = "true"
    /\ ctxDone' = FALSE
    /\ UNCHANGED <<now, wheels, delayQueue, entries, cur, taskCounter, shutAt, shutPending>>

\* bucket := t.delayQueue.Pop(ctx) returns nil: AdvanceClock returns false.
PopNil ==
    /\ drv = "pop"
    /\ ctxDone
    /\ drv' = "out"
    /\ ret' = "false"
    /\ ctxDone' = FALSE
    /\ UNCHANGED <<now, wheels, delayQueue, entries, cur, taskCounter, shutAt, shutPending>>

\* A variant of Lock that does not wait for the Add calls holding the read lock.
LockWithoutWaiting ==
    /\ drv = "wantlock"
    /\ drv' = "locked"
    /\ UNCHANGED <<now, wheels, delayQueue, entries, cur, ctxDone, ret, taskCounter, shutAt, shutPending>>

\* t.mu.Lock()
Lock ==
    /\ drv = "wantlock"
    /\ Readers = 0
    /\ drv' = "locked"
    /\ UNCHANGED <<now, wheels, delayQueue, entries, cur, ctxDone, ret, taskCounter, shutAt, shutPending>>

\* A variant of Visit that calls e.task.run() on the driving thread.
VisitInline(e) == [Dispatch(e, "flush") EXCEPT !.ran = @ + 1]

\* A variant of Visit that starts nothing.
VisitNothing(e) == [e EXCEPT !.pc = "out"]

\* The visitor AdvanceClock gives to flush: go func() { e.task.run() }().
Visit(e) == Dispatch(e, "flush")

\* A variant of ProcessBucket that flushes the bucket before it reads the
\* bucket's expiration for advanceClock.
ProcessBucketFlushFirst ==
    /\ drv = "locked"
    /\ LET b == wheels[cur.lvl].buckets[cur.slot]
           flushed == FlushBucket(wheels, cur)
       IN /\ wheels' = WheelAdvanceClock(flushed, 1,
                            GetDelay(flushed[cur.lvl].buckets[cur.slot]))
          /\ entries' = [t \in Tasks |->
                IF t \in b.entries THEN Visit(entries[t]) ELSE entries[t]]
    /\ drv' = "pop2"
    /\ UNCHANGED <<now, delayQueue, cur, ctxDone, ret, taskCounter, shutAt, shutPending>>

\* One pass of the loop body: advanceClock(v.GetDelay()); v.flush(visitor).
ProcessBucket ==
    /\ drv = "locked"
    /\ LET b == wheels[cur.lvl].buckets[cur.slot]
       IN /\ wheels' = FlushBucket(WheelAdvanceClock(wheels, 1, GetDelay(b)), cur)
          /\ entries' = [t \in Tasks |->
                IF t \in b.entries THEN Visit(entries[t]) ELSE entries[t]]
    /\ drv' = "pop2"
    /\ UNCHANGED <<now, delayQueue, cur, ctxDone, ret, taskCounter, shutAt, shutPending>>

\* x := t.delayQueue.Pop(ctx) inside the loop returns a bucket.
PopNext ==
    /\ drv = "pop2"
    /\ \E i \in DueItems(delayQueue, Nanosecond(now)) :
          /\ delayQueue' = Take(delayQueue, i)
          /\ cur' = [lvl |-> i.lvl, slot |-> i.slot]
    /\ drv' = "locked"
    /\ UNCHANGED <<now, wheels, entries, ctxDone, ret, taskCounter, shutAt, shutPending>>

\* x := t.delayQueue.Pop(ctx) inside the loop returns nil: unlock, return true.
PopNextNil ==
    /\ drv = "pop2"
    /\ ctxDone
    /\ drv' = "out"
    /\ ret' = "true"
    /\ cur' = NoBucket
    /\ ctxDone' = FALSE
    /\ UNCHANGED <<now, wheels, delayQueue, entries, taskCounter, shutAt, shutPending>>

\* SystemTimer.Size
Size == taskCounter

\* SystemTimer.Shutdown: the body is empty.
Shutdown ==
    /\ shutAt = "none"
    /\ shutAt' = IF drv \in {"pop", "pop2"} THEN "blocked" ELSE "running"
    /\ shutPending' = {t \in Tasks : entries[t].pc = "queued"}
    /\ UNCHANGED <<now, wheels, delayQueue, entries, drv, cur, ctxDone, ret, taskCounter>>

\* Time passes.
Tick ==
    /\ now < StartNow + MaxElapsed
    /\ now' = now + 1
    /\ UNCHANGED <<wheels, delayQueue, entries, drv, cur, ctxDone, ret, taskCounter, shutAt, shutPending>>

Next ==
    \/ \E t \in Tasks : AddRLock(t)
    \/ \E t \in Tasks : AddNewTaskEntry(t)
    \/ \E t \in Tasks : AddTimerTaskEntry(t)
    \/ \E t \in Tasks : AddToOverflow(t)
    \/ \E t \in Tasks : Cancel(t)
    \/ \E t \in Tasks : TaskRun(t)
    \/ AdvanceClockCall
    \/ CtxFire
    \/ PopBucket
    \/ PopNil
    \/ Lock
    \/ ProcessBucket
    \/ PopNext
    \/ PopNextNil
    \/ Shutdown
    \/ Tick

Spec == Init /\ [][Next]_vars

\* The scheduling the code can rely on: time passes, the driving loop keeps
\* calling AdvanceClock, a thread that can take its next step takes it, and a
\* started goroutine runs.  Callers' submissions, cancellations, the ctx of an
\* AdvanceClock call and Shutdown are inputs: none of them is bound to happen.
FairSpec ==
    /\ Spec
    /\ WF_vars(Tick)
    /\ WF_vars(AdvanceClockCall)
    /\ WF_vars(PopBucket)
    /\ WF_vars(PopNil)
    /\ WF_vars(Lock)
    /\ WF_vars(ProcessBucket)
    /\ WF_vars(PopNext)
    /\ WF_vars(PopNextNil)
    /\ \A t \in Tasks : WF_vars(AddNewTaskEntry(t))
    /\ \A t \in Tasks : WF_vars(AddTimerTaskEntry(t))
    /\ \A t \in Tasks : WF_vars(AddToOverflow(t))
    /\ \A t \in Tasks : WF_vars(TaskRun(t))

----------------------------------------------------------------------------
(* Vocabulary of the properties *)

\* The buckets holding entry t.
Holders(t) ==
    {b \in [lvl : 1..Len(wheels), slot : Slots] : t \in wheels[b.lvl].buckets[b.slot].entries}

\* The bucket is in the wake queue, or the driving thread has popped it and is
\* about to flush it.
Awaited(b) ==
    \/ \E i \in QueueItems(delayQueue) : i.lvl = b.lvl /\ i.slot = b.slot
    \/ drv \in {"wantlock", "locked"} /\ cur = b

\* No call of Add or AdvanceClock and no task action is in progress.
Quiescent ==
    /\ drv = "out"
    /\ \A t \in Tasks : entries[t].pc \in {"idle", "queued", "out"}
    /\ \A t \in Tasks : entries[t].ran = entries[t].spawned

\* The step starts a goroutine for entry t.
Dispatched(t) == entries'[t].spawned > entries[t].spawned

\* The expiration of entry t in true time: its submission time plus its delay.
TrueExpiration(t) == entries[t].subNow + entries[t].delay

----------------------------------------------------------------------------
(* Properties *)

\* C1: a queued entry that has been cancelled before its bucket is flushed is
\* never dispatched, so its action is never invoked.
C1_CancelledNeverDispatched ==
    [][\A t \in Tasks :
          (entries[t].pc = "queued" /\ entries[t].cancelled) => ~Dispatched(t)]_vars

\* C2: no task is dispatched before the wheel's clock has come within one base
\* tick of its expiration; an entry held in an overflow level is not executed
\* when its coarse bucket is flushed.
C2_NeverEarly ==
    [][\A t \in Tasks :
          Dispatched(t) => entries[t].expiration < wheels'[1].currentTime + tickMs]_vars

\* C3: a task that is never cancelled is executed exactly once: it is dispatched
\* at most once and run at most once, while queued it is held by exactly one
\* bucket that the driving thread will flush, once it has left the wheel it has
\* been dispatched, and when nothing is left to do it has run exactly once.
C3_ExactlyOnce ==
    /\ \A t \in Tasks : entries[t].spawned <= 1 /\ entries[t].ran <= entries[t].spawned
    /\ \A t \in Tasks :
          IF entries[t].pc = "queued"
          THEN /\ Cardinality(Holders(t)) = 1
               /\ \A b \in Holders(t) : Awaited(b)
               /\ entries[t].spawned = 0
          ELSE Holders(t) = {}
    /\ \A t \in Tasks :
          (entries[t].pc = "out" /\ ~entries[t].cancelled) => entries[t].spawned = 1
    /\ (Quiescent /\ delayQueue = EmptyBag) =>
          \A t \in Tasks :
             (entries[t].pc # "idle" /\ ~entries[t].cancelled) => entries[t].ran = 1

\* Two tasks with the same expiration, both flushed from a bucket, both run once.
C3_Witness ==
    /\ entries[1].expiration = entries[2].expiration
    /\ \A t \in {1, 2} : entries[t].via = "flush" /\ entries[t].ran = 1 /\ ~entries[t].cancelled

\* C4: a task is dispatched within one tick of its submission time plus its
\* delay, in true time: here, not more than one tick before it.
C4_WithinOneTick ==
    [][\A t \in Tasks : Dispatched(t) => now + tickMs >= TrueExpiration(t)]_vars

\* C5: at every quiescent point size() is the number of entries submitted minus
\* the number executed and the number cancelled and dropped, that is, the number
\* of entries still queued.
C5_SizeIsPendingCount ==
    Quiescent =>
        Size = Cardinality({t \in Tasks : entries[t].pc # "idle"})
               - Cardinality({t \in Tasks : entries[t].ran > 0})
               - Cardinality({t \in Tasks : entries[t].pc = "out" /\ entries[t].spawned = 0})

\* C6: no task that was pending when Shutdown was called is executed afterwards.
C6_NoRunAfterShutdown ==
    [][\A t \in Tasks : t \in shutPending => ~Dispatched(t)]_vars

\* C7: when Shutdown is called while the driving thread is blocked in the wake
\* queue's wait, the blocked AdvanceClock returns.
C7_ShutdownUnblocks ==
    (shutAt = "blocked" /\ drv \in {"pop", "pop2"}) ~> (drv = "out")

C10_DispatchOrderByTick ==
    [][/\ \A a, b \in Tasks :
            ~ /\ entries[a].pc = "queued" /\ entries'[a].pc = "queued"
              /\ entries[b].pc = "queued" /\ Dispatched(b)
              /\ ~entries[a].cancelled /\ ~entries[b].cancelled
              /\ entries[a].expiration \div tickMs < entries[b].expiration \div tickMs
              /\ TrueExpiration(a) \div tickMs < TrueExpiration(b) \div tickMs
       /\ wheels'[1].currentTime >= wheels[1].currentTime]_vars

\* C11: AdvanceClock returns true exactly when it has processed a bucket: it
\* returns true only from the loop, which it enters only by flushing the bucket
\* it popped; otherwise it returns false, on its ctx being done, and that call
\* has dispatched nothing and left the wheels, the buckets, the wake queue and
\* the live counter as they were.
C11_ReturnValue ==
    [][/\ (drv # "out" /\ drv' = "out") =>
             IF drv = "pop2"
             THEN ret' = "true"
             ELSE /\ drv = "pop" /\ ctxDone /\ ret' = "false"
                  /\ wheels' = wheels /\ delayQueue' = delayQueue
                  /\ entries' = entries /\ taskCounter' = taskCounter
       /\ (drv = "pop" /\ drv' # "pop") => drv' \in {"out", "wantlock"}
       /\ (drv = "pop" /\ drv' = "pop") =>
             \A t \in Tasks : Dispatched(t) => entries'[t].via = "submit"
       /\ (drv # "pop2" /\ drv' = "pop2") =>
             /\ drv = "locked"
             /\ wheels'[cur.lvl].buckets[cur.slot] = EmptyTaskList]_vars

\* AdvanceClock has returned false while a bucket that is not yet due waits in
\* the wake queue.
C11_Witness ==
    /\ drv = "out" /\ ret = "false"
    /\ delayQueue # EmptyBag
    /\ DueItems(delayQueue, Nanosecond(now)) = {}

C13_FlushReoffers ==
    [][(drv = "locked" /\ drv' = "pop2") =>
          \A t \in wheels[cur.lvl].buckets[cur.slot].entries :
             LET rejected == \/ entries[t].cancelled
                             \/ entries[t].expiration
                                   < wheels'[1].currentTime + wheels'[1].tickMs
             IN  /\ Dispatched(t) => (rejected /\ ~entries[t].cancelled)
                 /\ ~rejected =>
                       /\ ~Dispatched(t)
                       /\ entries'[t].pc = "queued"
                       /\ \E l \in 1..(cur.lvl - 1), s \in Slots :
                             t \in wheels'[l].buckets[s].entries]_vars

\* C14: after its first bucket AdvanceClock polls without blocking: whenever it
\* is at the Pop inside the loop and no bucket is due, it can return at once,
\* whether or not its ctx is done.
C14_DrainReturnsWithoutWaiting ==
    (drv = "pop2" /\ DueItems(delayQueue, Nanosecond(now)) = {})
        => ENABLED PopNextNil

\* C15: a submit never waits for the driver's blocking wait on the wake queue:
\* whenever the driver is suspended in Pop and some task has not been submitted
\* yet, an Add call can take the read lock.
C15_SubmitNeverWaitsForBlockedDriver ==
    (drv \in {"pop", "pop2"} /\ \E t \in Tasks : entries[t].pc = "idle")
        => \E t \in Tasks : ENABLED AddRLock(t)

\* The start time NewSystemTimer reads from the clock.
startMs == Nanosecond(StartNow)

\* C16: the expiration Add assigns is now + delay on one non-decreasing clock:
\* of two entries submitted with the same delay, the one submitted later never
\* has the smaller expiration, and no expiration is below the timer's start
\* time plus the entry's delay.
C16_ExpirationOnMonotoneClock ==
    \A t, u \in Tasks :
        (/\ entries[t].pc \notin {"idle", "rlocked"}
         /\ entries[u].pc \notin {"idle", "rlocked"})
        => /\ entries[t].expiration >= startMs + entries[t].delay
           /\ (/\ entries[t].delay = entries[u].delay
               /\ entries[t].subNow <= entries[u].subNow)
              => entries[t].expiration <= entries[u].expiration

Buckets == [lvl : 1..Len(wheels), slot : Slots]

InQueue(b) == \E i \in QueueItems(delayQueue) : i.lvl = b.lvl /\ i.slot = b.slot

NonEmpty(b) == wheels[b.lvl].buckets[b.slot].entries # {}

\* Each bucket is in the wake queue at most once, and the wake queue holds no
\* more items than there are non-empty buckets.
QueuedAtMostOnce ==
    /\ \A i, j \in QueueItems(delayQueue) :
          /\ CopiesIn(i, delayQueue) = 1
          /\ (i.lvl = j.lvl /\ i.slot = j.slot) => i = j
    /\ BagCardinality(delayQueue) <= Cardinality({b \in Buckets : NonEmpty(b)})

\* C17 as stated: each bucket is in the wake queue at most once, the wake queue
\* is no larger than the number of non-empty buckets, and every non-empty
\* bucket is in the wake queue.
C17_EveryNonEmptyBucketQueued ==
    /\ QueuedAtMostOnce
    /\ \A b \in Buckets : NonEmpty(b) => InQueue(b)

\* C17, amended: each bucket is in the wake queue at most once and is put there
\* only when it goes from empty and unarmed to armed; the wake queue is no
\* larger than the number of non-empty buckets; and every non-empty bucket is
\* in the wake queue or is the bucket AdvanceClock has popped and not yet
\* flushed.
C17_NonEmptyBucketQueuedOrPopped ==
    /\ [](/\ QueuedAtMostOnce
          /\ \A b \in Buckets : NonEmpty(b) => Awaited(b)
          /\ \A b \in Buckets : InQueue(b) => NonEmpty(b))
    /\ [][\A i \in QueueItems(delayQueue') :
            CopiesIn(i, delayQueue') > CopiesIn(i, delayQueue) =>
               \/ i.lvl > Len(wheels)
               \/ /\ wheels[i.lvl].buckets[i.slot] = EmptyTaskList
                  /\ wheels'[i.lvl].buckets[i.slot].entries # {}
                  /\ wheels'[i.lvl].buckets[i.slot].expiration = i.key]_vars

\* AdvanceClock has popped a non-empty bucket and not yet flushed it, while an
\* Add call is about to offer its entry to the wheel.
C17_Witness ==
    /\ drv = "wantlock" /\ NonEmpty(cur) /\ ~InQueue(cur)
    /\ \E t \in Tasks : entries[t].pc = "created"

\* C18: every level's current time is a multiple of that level's tick and never
\* decreases: it changes only when AdvanceClock advances the wheel to the
\* expiration t of the bucket it flushes and t >= currentTime + tick, and it
\* becomes t floored to the level's tick, at the base level and at every
\* overflow level alike; otherwise it keeps its value.
C18_CurrentTimeAlignedAndMonotone ==
    /\ [](\A l \in 1..Len(wheels) :
            /\ wheels[l].currentTime % wheels[l].tickMs = 0
            /\ l > 1 => /\ wheels[l].tickMs = wheels[l - 1].interval
                        /\ wheels[l].currentTime <= wheels[l - 1].currentTime)
    /\ [][\A l \in 1..Len(wheels) :
            LET w == wheels[l]
                t == GetDelay(wheels[cur.lvl].buckets[cur.slot])
            IN  /\ wheels'[l].currentTime >= w.currentTime
                /\ wheels'[l].tickMs = w.tickMs
                /\ IF drv = "locked" /\ drv' = "pop2" /\ t >= w.currentTime + w.tickMs
                   THEN wheels'[l].currentTime = t - (t % w.tickMs)
                   ELSE wheels'[l].currentTime = w.currentTime]_vars

\* The overflow wheel's current time has advanced past its start.
C18_Witness ==
    /\ Len(wheels) >= 2
    /\ wheels[2].currentTime > 0
    /\ wheels[1].currentTime > wheels[2].currentTime

\* C20: the driver's bucket processing excludes submission: from the moment
\* AdvanceClock holds the lock until it returns, no Add call is inside (none
\* holds the read lock, so none is in wheel.add) and none can enter; and the
\* wheels and the buckets change under the driver only while it holds the
\* lock. Add calls exclude one another nowhere.
C20_DriverExcludesSubmits ==
    /\ [](drv \in {"locked", "pop2"} =>
             /\ Readers = 0
             /\ \A t \in Tasks : ~ENABLED AddRLock(t))
    /\ [][wheels' # wheels =>
             \/ drv = "locked" /\ drv' = "pop2" /\ entries' # entries
             \/ /\ drv \notin {"locked", "pop2"} /\ drv' = drv
                /\ \E t \in Tasks : /\ entries[t].pc \in {"created", "construct"}
                                     /\ entries'[t] # entries[t]]_vars

\* AdvanceClock holds the lock and is about to flush a non-empty bucket, while
\* a task is still to be submitted.
C20_Witness ==
    /\ drv = "locked" /\ NonEmpty(cur)
    /\ \E t \in Tasks : entries[t].pc = "idle"

\* Every Add call is in wheel.add at the same time.
AllSubmitsInWheelAdd == \A t \in Tasks : entries[t].pc = "created"

\* C19: when several Add calls find together that their entries lie beyond a
\* level's window, one overflow wheel is constructed for that level and all of
\* them add to it: a step adds at most one level; a level that exists keeps its
\* tick and its interval, its current time does not fall back, and a bucket of
\* it loses entries only by the driver's flush of that bucket; a level is added
\* only by an Add call that has found it absent; and an entry whose Add has
\* waited for the overflow wheel of a level is queued above that level.
C19_OneOverflowWheel ==
    [][/\ Len(wheels') \in {Len(wheels), Len(wheels) + 1}
       /\ \A l \in 1..Len(wheels) :
             /\ wheels'[l].tickMs = wheels[l].tickMs
             /\ wheels'[l].interval = wheels[l].interval
             /\ wheels'[l].currentTime >= wheels[l].currentTime
             /\ \A sl \in Slots :
                   \/ wheels[l].buckets[sl].entries \subseteq wheels'[l].buckets[sl].entries
                   \/ /\ drv = "locked" /\ drv' = "pop2"
                      /\ cur = [lvl |-> l, slot |-> sl]
       /\ Len(wheels') > Len(wheels) =>
             \E t \in Tasks : /\ entries[t].pc = "construct"
                              /\ entries[t].lvl = Len(wheels)
                              /\ entries'[t] # entries[t]
       /\ \A t \in Tasks :
             (entries[t].pc = "construct" /\ entries'[t].pc = "queued") =>
                \E l \in (entries[t].lvl + 1)..Len(wheels'), sl \in Slots :
                   t \in wheels'[l].buckets[sl].entries]_vars

\* Two Add calls have found the base level's overflow wheel absent; one has
\* constructed it and queued its entry there, the other has yet to go on.
C19_Witness ==
    \E t, u \in Tasks :
        /\ entries[t].pc = "queued"
        /\ \E b \in Holders(t) : b.lvl = 2
        /\ entries[u].pc = "construct" /\ entries[u].lvl = 1
        /\ Len(wheels) >= 2

====
